---------------------------- MODULE Spec2Model ----------------------------
(***************************************************************************)
(* The JSON-RPC message envelope of lsp-ws-proxy (src/lsp/mod.rs):         *)
(* classification of a JSON payload into Message::{Request, Notification,  *)
(* Response, Unknown} by serde's untagged trial decoding, and              *)
(* serialization of a Message under the flattened WithJsonRpc wrapper.     *)
(*                                                                         *)
(* JSON texts are modelled as member lists (duplicate names allowed, as    *)
(* the JSON grammar allows them), JSON values as maps from member names    *)
(* to values, and member values as opaque atoms written as their JSON      *)
(* text.                                                                   *)
(***************************************************************************)
EXTENDS Naturals, Sequences, FiniteSets

VARIABLES text, msg, value, msgv, out, msg2, out2, pc, calls

vars == <<text, msg, value, msgv, out, msg2, out2, pc, calls>>

-----------------------------------------------------------------------------
(* Bounds *)

\* Largest number of members of an input object text.
MaxMembers == 4

\* Number of concurrent callers in the interleaving specification.
NumCalls == 2

-----------------------------------------------------------------------------
(* The JSON universe *)

Absent == ""

Keys == {"jsonrpc", "id", "method", "params", "result", "error"}

\* serde_json::Map is a BTreeMap: members of a Value come out sorted by name.
KeyOrder == <<"error", "id", "jsonrpc", "method", "params", "result">>

V20 == "\"2.0\""
V10 == "\"1.0\""
Id1 == "1"
MInitialize == "\"initialize\""
MInitialized == "\"initialized\""
MXInitialize == "\"xinitialize\""
PEmpty == "{}"
PCaps == "{\"capabilities\":{}}"
RErr == "{\"code\":1,\"message\":\"e\"}"

ValuesOf(k) ==
    CASE k = "jsonrpc" -> {V20, V10}
      [] k = "id"      -> {Id1}
      [] k = "method"  -> {MInitialize, MInitialized, MXInitialize}
      [] k = "params"  -> {PEmpty, PCaps}
      [] k = "result"  -> {PEmpty}
      [] k = "error"   -> {RErr}

Atoms == UNION {ValuesOf(k) : k \in Keys}

Member(k, v) == [k |-> k, v |-> v]

Members == UNION {{Member(k, v) : v \in ValuesOf(k)} : k \in Keys}

\* Well-formed JSON texts that are not objects, and texts that are no JSON.
ScalarToks == {"1", "\"x\"", "true", "[]"}
BadToks == {"tru", "{,}"}

SeqsUpTo(S, n) == UNION {[1..m -> S] : m \in 0..n}

\* A text: an object text (its members in order, and whether the closing
\* brace arrived) or a single token.
ObjText(ms, closed) == [kind |-> "obj", members |-> ms, closed |-> closed, tok |-> ""]
TokText(t) == [kind |-> "scalar", members |-> <<>>, closed |-> TRUE, tok |-> t]

Texts ==
    {ObjText(ms, c) : ms \in SeqsUpTo(Members, MaxMembers), c \in BOOLEAN}
        \cup {TokText(t) : t \in ScalarToks \cup BadToks}

EmptyMap == [k \in Keys |-> Absent]

ObjValue(m) == [kind |-> "obj", tok |-> "", map |-> m]
TokValue(t) == [kind |-> "scalar", tok |-> t, map |-> EmptyMap]


-----------------------------------------------------------------------------
(* serde_json: parsing a text, and the two deserializer inputs *)

Count(ms, k) == Cardinality({i \in DOMAIN ms : ms[i].k = k})

LastIndex(ms, k) ==
    CHOOSE i \in DOMAIN ms : ms[i].k = k /\ \A j \in DOMAIN ms : ms[j].k = k => j <= i

\* Collecting members into a serde_json::Map: insert() replaces an earlier
\* entry of the same name, so the last occurrence wins.
LastValue(ms, k) ==
    IF \E i \in DOMAIN ms : ms[i].k = k THEN ms[LastIndex(ms, k)].v ELSE Absent

MapOf(ms) == [k \in Keys |-> LastValue(ms, k)]

PresentKeys(m) == SelectSeq(KeyOrder, LAMBDA k : m[k] # Absent)

\* Iterating a serde_json::Map: one member per name, sorted by name.
MembersOf(m) ==
    [i \in 1..Len(PresentKeys(m)) |-> Member(PresentKeys(m)[i], m[PresentKeys(m)[i]])]

WellFormed(t) ==
    IF t.kind = "obj" THEN t.closed ELSE t.tok \in ScalarToks

\* serde_json::from_str::<Value>: Err on a syntax error.
parse_json(t) ==
    IF ~WellFormed(t) THEN [ok |-> FALSE, val |-> TokValue("")]
    ELSE IF t.kind = "obj" THEN [ok |-> TRUE, val |-> ObjValue(MapOf(t.members))]
    ELSE [ok |-> TRUE, val |-> TokValue(t.tok)]

\* What the untagged derive buffers before trying the variants: from a
\* text, serde's Content keeps every member in order (duplicates too);
\* from a Value, the members are the map's entries.
Content(kind, tok, ms) == [kind |-> kind, tok |-> tok, members |-> ms]
ContentOfText(t) == Content(t.kind, t.tok, t.members)
ContentOfValue(v) == Content(v.kind, v.tok, MembersOf(v.map))

-----------------------------------------------------------------------------
(* The payload categories (lsp/request.rs, lsp/notification.rs,           *)
(* lsp/response.rs, lsp/types.rs)                                         *)

RequestMethods == {MInitialize}
NotificationMethods == {MInitialized}

IsId(v) == v \in {Id1}

Get(c, k) == LastValue(c.members, k)

\* A field the schema owns must occur exactly once: a derived struct
\* decoder rejects a missing field and a repeated one ("duplicate field").
Once(c, k) == Count(c.members, k) = 1

\* Method-specific parameter schema: InitializeParams needs `capabilities`,
\* InitializedParams is an empty object and accepts any object.
ParamsValid(method, p) ==
    CASE method = MInitialize  -> p = PCaps
      [] method = MInitialized -> p \in {PEmpty, PCaps}
      [] OTHER -> FALSE

\* The parameters as the typed value holds (and re-emits) them.
NormParams(method, p) ==
    IF method = MInitialized THEN PEmpty ELSE p

ValidRequest(c) ==
    /\ c.kind = "obj"
    /\ Once(c, "id") /\ IsId(Get(c, "id"))
    /\ Once(c, "method") /\ Get(c, "method") \in RequestMethods
    /\ Once(c, "params") /\ ParamsValid(Get(c, "method"), Get(c, "params"))

DecodeRequest(c) ==
    [EmptyMap EXCEPT !["id"] = Get(c, "id"),
                     !["method"] = Get(c, "method"),
                     !["params"] = NormParams(Get(c, "method"), Get(c, "params"))]

ValidNotification(c) ==
    /\ c.kind = "obj"
    /\ Count(c.members, "id") = 0
    /\ Once(c, "method") /\ Get(c, "method") \in NotificationMethods
    /\ Once(c, "params") /\ ParamsValid(Get(c, "method"), Get(c, "params"))

DecodeNotification(c) ==
    [EmptyMap EXCEPT !["method"] = Get(c, "method"),
                     !["params"] = NormParams(Get(c, "method"), Get(c, "params"))]

\* Exactly one of result and error, never both.
ValidResponse(c) ==
    /\ c.kind = "obj"
    /\ Once(c, "id") /\ IsId(Get(c, "id"))
    /\ Count(c.members, "result") + Count(c.members, "error") = 1

DecodeResponse(c) ==
    [EmptyMap EXCEPT !["id"] = Get(c, "id"),
                     !["result"] = Get(c, "result"),
                     !["error"] = Get(c, "error")]

\* Unknown wraps the raw JSON value, whatever it is.
DecodeUnknown(c) ==
    IF c.kind = "obj" THEN ObjValue(MapOf(c.members)) ELSE TokValue(c.tok)

\* The members each category writes, in field order.
FieldsOf(m, ks) ==
    LET present == SelectSeq(ks, LAMBDA k : m[k] # Absent)
    IN  [i \in 1..Len(present) |-> Member(present[i], m[present[i]])]

SerializeRequest(v) == FieldsOf(v.map, <<"method", "id", "params">>)
SerializeNotification(v) == FieldsOf(v.map, <<"method", "params">>)
SerializeResponse(v) == FieldsOf(v.map, <<"id", "result", "error">>)
SerializeUnknown(v) == MembersOf(v.map)

-----------------------------------------------------------------------------
(* Message *)

Variants == {"Request", "Notification", "Response", "Unknown"}

Msg(tag, val) == [tag |-> tag, val |-> val]
ErrMsg == Msg("Err", TokValue(""))
NoMsg == Msg("none", TokValue(""))

\* Faulty variants of Deserialize: no catch-all variant; Response declared
\* before Request; the variant picked from the members present instead of
\* by trial decoding; Unknown as a unit variant that keeps nothing.
Deserialize_NoCatchAll(c) ==
    IF ValidRequest(c) THEN Msg("Request", ObjValue(DecodeRequest(c)))
    ELSE IF ValidNotification(c) THEN Msg("Notification", ObjValue(DecodeNotification(c)))
    ELSE IF ValidResponse(c) THEN Msg("Response", ObjValue(DecodeResponse(c)))
    ELSE ErrMsg

Deserialize_ResponseFirst(c) ==
    IF ValidResponse(c) THEN Msg("Response", ObjValue(DecodeResponse(c)))
    ELSE IF ValidRequest(c) THEN Msg("Request", ObjValue(DecodeRequest(c)))
    ELSE IF ValidNotification(c) THEN Msg("Notification", ObjValue(DecodeNotification(c)))
    ELSE Msg("Unknown", DecodeUnknown(c))

Deserialize_ByShape(c) ==
    IF c.kind = "obj" /\ Count(c.members, "id") > 0 /\ Count(c.members, "method") > 0
        THEN Msg("Request", ObjValue(DecodeRequest(c)))
    ELSE IF c.kind = "obj" /\ Count(c.members, "method") > 0
        THEN Msg("Notification", ObjValue(DecodeNotification(c)))
    ELSE IF c.kind = "obj" /\ Count(c.members, "id") > 0
        THEN Msg("Response", ObjValue(DecodeResponse(c)))
    ELSE Msg("Unknown", DecodeUnknown(c))

Deserialize_UnitUnknown(c) ==
    IF ValidRequest(c) THEN Msg("Request", ObjValue(DecodeRequest(c)))
    ELSE IF ValidNotification(c) THEN Msg("Notification", ObjValue(DecodeNotification(c)))
    ELSE IF ValidResponse(c) THEN Msg("Response", ObjValue(DecodeResponse(c)))
    ELSE Msg("Unknown", ObjValue(EmptyMap))

\* #[serde(untagged)] enum Message: the buffered content is offered to each
\* variant in declaration order and the first that decodes is returned.
Deserialize(c) ==
    IF ValidRequest(c) THEN Msg("Request", ObjValue(DecodeRequest(c)))
    ELSE IF ValidNotification(c) THEN Msg("Notification", ObjValue(DecodeNotification(c)))
    ELSE IF ValidResponse(c) THEN Msg("Response", ObjValue(DecodeResponse(c)))
    ELSE Msg("Unknown", DecodeUnknown(c))

\* Faulty variant of from_str: a parser shared by the callers that stays
\* failed once any call has hit a syntax error.
from_str_Poisoned(s) ==
    IF \E i \in DOMAIN calls : calls[i].res.tag = "Err" THEN ErrMsg
    ELSE IF WellFormed(s) THEN Deserialize(ContentOfText(s)) ELSE ErrMsg

\* impl FromStr for Message
from_str(s) ==
    IF WellFormed(s) THEN Deserialize(ContentOfText(s)) ELSE ErrMsg

\* Faulty variant of try_from: only JSON objects are classified.
try_from_ObjectsOnly(v) ==
    IF v.kind = "obj" THEN Deserialize(ContentOfValue(v)) ELSE ErrMsg

\* impl TryFrom<serde_json::Value> for Message
try_from(v) == Deserialize(ContentOfValue(v))

SerOk(ms) == [ok |-> TRUE, members |-> ms]
SerErr == [ok |-> FALSE, members |-> <<>>]
NoOut == SerErr

\* struct WithJsonRpc { jsonrpc, #[serde(flatten)] msg }: the version member
\* first, then msg's members written into the same object.  Only a map or a
\* struct can be flattened: anything else is a serialization error.
WithJsonRpc(jsonrpc, isMap, ms) ==
    IF isMap THEN SerOk(<<Member("jsonrpc", jsonrpc)>> \o ms) ELSE SerErr

\* Faulty variant of Serialize: #[serde(flatten)] left off, so the payload
\* is nested under a "msg" member.
Serialize_NoFlatten(m) ==
    SerOk(<<Member("jsonrpc", V20), Member("msg", "{}")>>)

\* impl Serialize for Message
Serialize(m) ==
    CASE m.tag = "Request"      -> WithJsonRpc(V20, TRUE, SerializeRequest(m.val))
      [] m.tag = "Notification" -> WithJsonRpc(V20, TRUE, SerializeNotification(m.val))
      [] m.tag = "Response"     -> WithJsonRpc(V20, TRUE, SerializeResponse(m.val))
      [] m.tag = "Unknown"      ->
            WithJsonRpc(V20, m.val.kind = "obj", SerializeUnknown(m.val))

\* serde_json::to_string / serde_json::to_value of a successful serialization.
to_string(o) == ObjText(o.members, TRUE)
to_value(o) == ObjValue(MapOf(o.members))

-----------------------------------------------------------------------------
(* One payload through the library: classify the text, parse it and       *)
(* classify the value, render the message, classify and render again.     *)

NoValue == [ok |-> FALSE, val |-> TokValue("")]
NoCalls == [i \in 1..NumCalls |-> [input |-> TokText("1"), pc |-> "idle", res |-> NoMsg, out |-> NoOut]]

Init ==
    /\ text \in Texts
    /\ msg = NoMsg /\ value = NoValue /\ msgv = NoMsg
    /\ out = NoOut /\ msg2 = NoMsg /\ out2 = NoOut
    /\ pc = "start"
    /\ calls = NoCalls

FromStr ==
    /\ pc = "start"
    /\ msg' = from_str(text)
    /\ pc' = "classified"
    /\ UNCHANGED <<text, value, msgv, out, msg2, out2, calls>>

ParseJson ==
    /\ pc = "classified"
    /\ value' = parse_json(text)
    /\ pc' = "parsed"
    /\ UNCHANGED <<text, msg, msgv, out, msg2, out2, calls>>

TryFrom ==
    /\ pc = "parsed" /\ value.ok
    /\ msgv' = try_from(value.val)
    /\ pc' = "both"
    /\ UNCHANGED <<text, msg, value, out, msg2, out2, calls>>

Render ==
    /\ pc = "both" /\ msg.tag \in Variants
    /\ out' = Serialize(msg)
    /\ pc' = "rendered"
    /\ UNCHANGED <<text, msg, value, msgv, msg2, out2, calls>>

Reclassify ==
    /\ pc = "rendered" /\ out.ok
    /\ msg2' = from_str(to_string(out))
    /\ pc' = "reclassified"
    /\ UNCHANGED <<text, msg, value, msgv, out, out2, calls>>

Rerender ==
    /\ pc = "reclassified" /\ msg2.tag \in Variants
    /\ out2' = Serialize(msg2)
    /\ pc' = "done"
    /\ UNCHANGED <<text, msg, value, msgv, out, msg2, calls>>

Next == FromStr \/ ParseJson \/ TryFrom \/ Render \/ Reclassify \/ Rerender

Spec == Init /\ [][Next]_vars

-----------------------------------------------------------------------------
(* Several callers, each classifying its own text and rendering the       *)
(* result, their steps interleaved in any order.                          *)

\* The payloads of the unit tests.
RequestExample ==
    ObjText(<<Member("jsonrpc", V20), Member("method", MInitialize),
              Member("params", PCaps), Member("id", Id1)>>, TRUE)
NotificationExample ==
    ObjText(<<Member("jsonrpc", V20), Member("method", MInitialized),
              Member("params", PEmpty)>>, TRUE)
ResponseExample ==
    ObjText(<<Member("jsonrpc", V20), Member("result", PEmpty), Member("id", Id1)>>, TRUE)
UnknownExample ==
    ObjText(<<Member("jsonrpc", V20), Member("method", MXInitialize),
              Member("params", PCaps), Member("id", Id1)>>, TRUE)

ParTexts ==
    {RequestExample, NotificationExample, ResponseExample, UnknownExample,
     TokText("1"), TokText("tru"), ObjText(<<Member("id", Id1)>>, FALSE)}

Call(t) == [input |-> t, pc |-> "idle", res |-> NoMsg, out |-> NoOut]

InitPar ==
    /\ calls \in [1..NumCalls -> {Call(t) : t \in ParTexts}]
    /\ text = TokText("1")
    /\ msg = NoMsg /\ value = NoValue /\ msgv = NoMsg
    /\ out = NoOut /\ msg2 = NoMsg /\ out2 = NoOut
    /\ pc = "par"

Classify(i) ==
    /\ calls[i].pc = "idle"
    /\ calls' = [calls EXCEPT ![i].res = from_str(calls[i].input),
                              ![i].pc = "classified"]
    /\ UNCHANGED <<text, msg, value, msgv, out, msg2, out2, pc>>

SerializeCall(i) ==
    /\ calls[i].pc = "classified" /\ calls[i].res.tag \in Variants
    /\ calls' = [calls EXCEPT ![i].out = Serialize(calls[i].res),
                              ![i].pc = "rendered"]
    /\ UNCHANGED <<text, msg, value, msgv, out, msg2, out2, pc>>

NextPar == \E i \in 1..NumCalls : Classify(i) \/ SerializeCall(i)

SpecPar == InitPar /\ [][NextPar]_vars

-----------------------------------------------------------------------------
(* Properties *)

AfterFromStr == pc \in {"classified", "parsed", "both", "rendered", "reclassified", "done"}
AfterTryFrom == pc \in {"both", "rendered", "reclassified", "done"}
AfterRender == pc \in {"rendered", "reclassified", "done"}
AfterReclassify == pc \in {"reclassified", "done"}

Typed == {"Request", "Notification", "Response"}

Has(m, k) == m[k] # Absent

\* A payload with an id and a method that no category recognizes.
UnrecognizedCall(m) ==
    /\ Has(m, "id") /\ Has(m, "method")
    /\ m["method"] \notin RequestMethods \cup NotificationMethods

\* tag is the first category, in declaration order, that accepts c.
FirstMatch(tag, c) ==
    /\ tag = "Request" <=> ValidRequest(c)
    /\ tag = "Notification" <=> (~ValidRequest(c) /\ ValidNotification(c))
    /\ tag = "Response" <=> (~ValidRequest(c) /\ ~ValidNotification(c) /\ ValidResponse(c))
    /\ tag = "Unknown" <=> (~ValidRequest(c) /\ ~ValidNotification(c) /\ ~ValidResponse(c))

\* The members the variant held by m writes.
VariantMembers(m) ==
    CASE m.tag = "Request" -> SerializeRequest(m.val)
      [] m.tag = "Notification" -> SerializeNotification(m.val)
      [] m.tag = "Response" -> SerializeResponse(m.val)
      [] m.tag = "Unknown" -> SerializeUnknown(m.val)

\* The result of classifying t with no other call in flight.
Alone(t) ==
    IF WellFormed(t) THEN Deserialize(ContentOfText(t)) ELSE ErrMsg

\* C1 (totality): classifying a well-formed JSON text succeeds and yields
\* one of the four variants Request, Notification, Response, Unknown.
C1_Totality ==
    (AfterFromStr /\ WellFormed(text)) => msg.tag \in Variants

C1_Witness ==
    /\ AfterFromStr /\ WellFormed(text)
    /\ text.kind = "obj" /\ Len(text.members) = MaxMembers
    /\ msg.tag = "Unknown"

C3_StrValueParity ==
    AfterTryFrom => msg = msgv

\* C4 (version stamping): the serialized output of a classified Message
\* carries jsonrpc with the value "2.0", whatever the input carried.
C4_VersionStamping ==
    (AfterRender /\ out.ok)
        => /\ Count(out.members, "jsonrpc") >= 1
           /\ \A i \in DOMAIN out.members :
                out.members[i].k = "jsonrpc" => out.members[i].v = V20
           /\ to_value(out).map["jsonrpc"] = V20

\* C5 (ordered first match): the variant is the first of Request,
\* Notification, Response whose schema accepts the payload, and Unknown
\* exactly when all three reject it; the unit tests' payloads are a
\* Request, a Notification and a Response.
C5_OrderedFirstMatch ==
    /\ (AfterFromStr /\ WellFormed(text)) => FirstMatch(msg.tag, ContentOfText(text))
    /\ AfterTryFrom => FirstMatch(msgv.tag, ContentOfValue(value.val))
    /\ (AfterFromStr /\ text = RequestExample) => msg.tag = "Request"
    /\ (AfterFromStr /\ text = NotificationExample) => msg.tag = "Notification"
    /\ (AfterFromStr /\ text = ResponseExample) => msg.tag = "Response"

\* A payload that both the Request and the Response schema accept.
C5_Witness ==
    /\ AfterTryFrom
    /\ ValidRequest(ContentOfValue(value.val)) /\ ValidResponse(ContentOfValue(value.val))
    /\ msgv.tag = "Request" /\ msg.tag = "Request"

\* C6 (syntax error only for malformed text): classifying a text fails if
\* and only if the text is not well-formed JSON, and classifying a parsed
\* JSON value never fails; a value that is not an object is Unknown.
C6_SyntaxErrorOnly ==
    /\ AfterFromStr => (msg = ErrMsg <=> ~WellFormed(text))
    /\ AfterTryFrom => msgv.tag \in Variants
    /\ (AfterTryFrom /\ value.val.kind = "scalar") => msgv.tag = "Unknown"

C6_Witness ==
    AfterTryFrom /\ value.val.kind = "scalar" /\ msgv.tag = "Unknown"

\* C7 (round-trip stability): for a text classified as Request,
\* Notification or Response, rendering succeeds, the rendered text is
\* classified into the same category, and rendering that again gives the
\* same fields.
C7_RoundTrip ==
    (AfterRender /\ msg.tag \in Typed)
        => /\ out.ok
           /\ AfterReclassify => msg2.tag = msg.tag
           /\ pc = "done" => (out2.ok /\ to_value(out2) = to_value(out))

\* A Notification whose parameters and version were normalised on the
\* first pass.
C7_Witness ==
    /\ pc = "done" /\ msg.tag = "Notification"
    /\ MapOf(text.members)["params"] = PCaps
    /\ MapOf(text.members)["jsonrpc"] = V10
    /\ to_value(out2) = to_value(out)

\* C8 (flat envelope): serializing a Message yields one JSON object whose
\* members are jsonrpc and the variant's own fields, each with the value it
\* has in the Message.
C8_FlatEnvelope ==
    AfterRender
        => /\ out.ok
           /\ Len(out.members) = 1 + Len(VariantMembers(msg))
           /\ out.members[1].k = "jsonrpc"
           /\ \A i \in DOMAIN VariantMembers(msg) :
                out.members[i + 1] = VariantMembers(msg)[i]

\* C10 (Unknown preserves content): a JSON object classified as Unknown
\* keeps every top-level member name and value, and serializing it emits
\* each of them, other than the version marker, with its value.
C10_UnknownPreserves ==
    (AfterRender /\ msg.tag = "Unknown" /\ value.val.kind = "obj")
        => /\ msg.val = value.val
           /\ out.ok
           /\ \A k \in Keys \ {"jsonrpc"} :
                Has(value.val.map, k)
                    => \E i \in DOMAIN out.members :
                        out.members[i] = Member(k, value.val.map[k])
           /\ \A i \in DOMAIN out.members :
                out.members[i].k # "jsonrpc"
                    => value.val.map[out.members[i].k] = out.members[i].v

C10_Witness ==
    /\ AfterRender /\ text = UnknownExample /\ msg.tag = "Unknown"
    /\ \E i \in DOMAIN out.members : out.members[i] = Member("method", MXInitialize)

=============================================================================
